---------------------------- MODULE Spec2Model ----------------------------
(***************************************************************************)
(* Signed-digit representations (sdr.py) and the rotation-selection        *)
(* integer program (sdr_ilp.py).                                           *)
(*                                                                         *)
(* The codec half models the four functions of sdr.py statement by         *)
(* statement, driven the way sdr_test.py drives them:                      *)
(*     looping_recompose(looping_naf(x))                                   *)
(*     prodinger_recompose applied to the pair prodinger_naf(x)            *)
(* Python integers are unbounded, so no width is imposed on the            *)
(* arithmetic; the arguments are non-negative, so x >> 1 is x \div 2 and   *)
(* x % m is the TLA+ remainder.                                            *)
(***************************************************************************)
EXTENDS Integers, Sequences, FiniteSets

VARIABLES
    \* ---- sdr.py ----
    cpc,              \* position of the codec run
    caller,           \* which driver composes the codec functions
    arg,              \* the integer under test
    alt,              \* a digit sequence to compare looping_naf against
    x,                \* looping_naf: local x
    naf,              \* looping_naf: local naf (least significant first)
    digits,           \* looping_naf: the returned list
    rec_naf,          \* looping_recompose: parameter naf
    rec_idx,          \* looping_recompose: position of the reversed iteration
    rec_x,            \* looping_recompose: local x
    rec_place_value,  \* looping_recompose: local place_value
    recomposed,       \* looping_recompose: the returned value
    negative_bits,    \* prodinger_naf: first component of the result
    positive_bits,    \* prodinger_naf: second component of the result
    neg,              \* prodinger_recompose: parameter neg
    pos,              \* prodinger_recompose: parameter pos
    p_x,              \* prodinger_recompose: local x
    p_place_value,    \* prodinger_recompose: local place_value
    p_recomposed,     \* prodinger_recompose: the returned value
    \* ---- sdr_ilp.py ----
    pc,                    \* position inside find_optimal_rotations
    rotations,             \* parameter rotations
    N,                     \* parameter N
    latency_weight,        \* parameter latency_weight, in half units
    key_material_weight,   \* parameter key_material_weight, in half units
    status,                \* the status solver.Solve() reports
    budget,                \* the objective value the solver's search stays within
    target_index,          \* number of targets the solver has assigned so far
    choose_rotation_vars,  \* the candidates j whose rot_j has value 1
    representation_vars,   \* per target i, the candidates j whose rep_i_j has value 1
    result,                \* what find_optimal_rotations returns or raises
    solve_calls            \* number of solver.Solve() calls made

codecVars == <<cpc, caller, arg, alt, x, naf, digits, rec_naf, rec_idx, rec_x,
               rec_place_value, recomposed, negative_bits, positive_bits,
               neg, pos, p_x, p_place_value, p_recomposed>>

ilpVars == <<pc, rotations, N, latency_weight, key_material_weight, status,
             budget, target_index, choose_rotation_vars, representation_vars,
             result, solve_calls>>

vars == <<codecVars, ilpVars>>

(***************************************************************************)
(* Bounds of the model.                                                    *)
(***************************************************************************)
\* Largest integer handed to the encoders (sdr_test.py uses range(128)).
MaxX == 127

\* Longest alternative digit sequence compared against looping_naf.
MaxAltLen == 7

\* Highest bit position compared between the two encoders' outputs.
MaxBit == 10

\* Largest N, longest target list and largest absolute target value handed
\* to find_optimal_rotations.
MaxN == 2
MaxTargets == 2
MaxTarget == 2

\* Largest doubled objective value whose assignments are enumerated for the
\* first and the second call of the demonstration block.
MaxObjectiveA == 22
MaxObjectiveB == 118

(***************************************************************************)
(* Helpers for Python lists and integer bit operations.                    *)
(***************************************************************************)
RECURSIVE Reverse(_)
Reverse(s) == IF s = <<>> THEN <<>> ELSE Append(Reverse(Tail(s)), Head(s))

RECURSIVE BitAnd(_, _)
BitAnd(a, b) ==
    IF a = 0 \/ b = 0 THEN 0
    ELSE ((a % 2) * (b % 2)) + 2 * BitAnd(a \div 2, b \div 2)

RECURSIVE BitXor(_, _)
BitXor(a, b) ==
    IF a = 0 THEN b
    ELSE IF b = 0 THEN a
    ELSE ((a + b) % 2) + 2 * BitXor(a \div 2, b \div 2)

ShiftRight1(a) == a \div 2

(***************************************************************************)
(* looping_naf                                                             *)
(***************************************************************************)
\* Variant: plain binary digits (the digit of an odd x is always 1).
NafDigitBinary(v) == 1

\* sdr.py:17   2 - x % 4
NafDigit(v) == 2 - (v % 4)

\* Variant: the list is returned in the order it was built.
NafResultUnreversed(s) == s

\* sdr.py:22   list(reversed(naf))
NafResult(s) == Reverse(s)

StartRecompose(s) ==
    /\ rec_naf' = s
    /\ rec_idx' = Len(s)
    /\ rec_x' = 0
    /\ rec_place_value' = 1

StartNaf(v) ==
    /\ x' = v
    /\ naf' = <<>>

\* One iteration of `while x > 0`.
NafStep ==
    /\ cpc = "looping_naf"
    /\ x > 0
    /\ IF x % 2 = 1
       THEN /\ naf' = Append(naf, NafDigit(x))
            /\ x' = (x - NafDigit(x)) \div 2
       ELSE /\ naf' = Append(naf, 0)
            /\ x' = x \div 2
    /\ UNCHANGED <<cpc, caller, arg, alt, digits, rec_naf, rec_idx, rec_x,
                   rec_place_value, recomposed, negative_bits, positive_bits,
                   neg, pos, p_x, p_place_value, p_recomposed>>
    /\ UNCHANGED ilpVars

\* Loop exit and `return list(reversed(naf))`; the driver goes on.
NafReturn ==
    /\ cpc = "looping_naf"
    /\ ~(x > 0)
    /\ digits' = NafResult(naf)
    /\ IF caller = "test"
       THEN /\ cpc' = "looping_recompose"
            /\ StartRecompose(NafResult(naf))
       ELSE /\ cpc' = "done"
            /\ UNCHANGED <<rec_naf, rec_idx, rec_x, rec_place_value>>
    /\ UNCHANGED <<caller, arg, alt, x, naf, recomposed, negative_bits,
                   positive_bits, neg, pos, p_x, p_place_value, p_recomposed>>
    /\ UNCHANGED ilpVars

(***************************************************************************)
(* looping_recompose                                                       *)
(***************************************************************************)
\* One iteration of `for digit in reversed(naf)`.
RecomposeStep ==
    /\ cpc = "looping_recompose"
    /\ rec_idx >= 1
    /\ rec_x' = rec_x + rec_naf[rec_idx] * rec_place_value
    /\ rec_place_value' = rec_place_value * 2
    /\ rec_idx' = rec_idx - 1
    /\ UNCHANGED <<cpc, caller, arg, alt, x, naf, digits, rec_naf, recomposed,
                   negative_bits, positive_bits, neg, pos, p_x, p_place_value,
                   p_recomposed>>
    /\ UNCHANGED ilpVars

\* Loop exit and `return x`; the driver goes on.
RecomposeReturn ==
    /\ cpc = "looping_recompose"
    /\ rec_idx = 0
    /\ recomposed' = rec_x
    /\ IF caller = "test"
       THEN /\ cpc' = "prodinger_naf"
            /\ UNCHANGED <<arg, x, naf>>
       ELSE IF rec_x >= 0
       THEN /\ cpc' = "looping_naf"
            /\ arg' = rec_x
            /\ StartNaf(rec_x)
       ELSE /\ cpc' = "rejected"
            /\ UNCHANGED <<arg, x, naf>>
    /\ UNCHANGED <<caller, alt, digits, rec_naf, rec_idx, rec_x,
                   rec_place_value, negative_bits, positive_bits, neg, pos,
                   p_x, p_place_value, p_recomposed>>
    /\ UNCHANGED ilpVars

(***************************************************************************)
(* prodinger_naf                                                           *)
(***************************************************************************)
\* sdr.py:45-47
ProdingerXh(v) == ShiftRight1(v)
ProdingerX3(v) == v + ProdingerXh(v)
ProdingerC(v) == BitXor(ProdingerXh(v), ProdingerX3(v))

\* Variant: x3 & xh in place of x3 & c.
PositiveBitsNoCarry(v) == BitAnd(ProdingerX3(v), ProdingerXh(v))

\* sdr.py:48   positive_bits = x3 & c
PositiveBits(v) == BitAnd(ProdingerX3(v), ProdingerC(v))

\* Variant: x3 & c in place of xh & c.
NegativeBitsFromX3(v) == BitAnd(ProdingerX3(v), ProdingerC(v))

\* sdr.py:49   negative_bits = xh & c
NegativeBits(v) == BitAnd(ProdingerXh(v), ProdingerC(v))

\* The whole function, and the test's call of prodinger_recompose on its
\* result: the tuple (negative_bits, positive_bits) is unpacked into
\* the parameters (neg, pos).
ProdingerNaf ==
    /\ cpc = "prodinger_naf"
    /\ negative_bits' = NegativeBits(arg)
    /\ positive_bits' = PositiveBits(arg)
    /\ neg' = NegativeBits(arg)
    /\ pos' = PositiveBits(arg)
    /\ p_x' = 0
    /\ p_place_value' = 1
    /\ cpc' = "prodinger_recompose"
    /\ UNCHANGED <<caller, arg, alt, x, naf, digits, rec_naf, rec_idx, rec_x,
                   rec_place_value, recomposed, p_recomposed>>
    /\ UNCHANGED ilpVars

(***************************************************************************)
(* prodinger_recompose                                                     *)
(***************************************************************************)
\* One iteration of `while neg > 0 or pos > 0`.
ProdingerRecomposeStep ==
    /\ cpc = "prodinger_recompose"
    /\ (neg > 0 \/ pos > 0)
    /\ LET n == BitAnd(neg, 1)
           p == BitAnd(pos, 1)
       IN  p_x' = p_x + ((-n) * p_place_value + p * p_place_value)
    /\ p_place_value' = p_place_value * 2
    /\ neg' = ShiftRight1(neg)
    /\ pos' = ShiftRight1(pos)
    /\ UNCHANGED <<cpc, caller, arg, alt, x, naf, digits, rec_naf, rec_idx,
                   rec_x, rec_place_value, recomposed, negative_bits,
                   positive_bits, p_recomposed>>
    /\ UNCHANGED ilpVars

\* Loop exit and `return x`.
ProdingerRecomposeReturn ==
    /\ cpc = "prodinger_recompose"
    /\ ~(neg > 0 \/ pos > 0)
    /\ p_recomposed' = p_x
    /\ cpc' = "done"
    /\ UNCHANGED <<caller, arg, alt, x, naf, digits, rec_naf, rec_idx, rec_x,
                   rec_place_value, recomposed, negative_bits, positive_bits,
                   neg, pos, p_x, p_place_value>>
    /\ UNCHANGED ilpVars

(***************************************************************************)
(* find_optimal_rotations (sdr_ilp.py)                                     *)
(*                                                                         *)
(* The weights are floats in the source (0.5, 10); the model carries twice *)
(* their value, so every objective value below is twice the source's.      *)
(* An assignment of the 0-1 variables is held as the sets of variables     *)
(* with value 1: MPVariable.solution_value() rounds an integer variable's  *)
(* value, so the truth test of lines 88 and 91 sees exactly 0 or 1.        *)
(***************************************************************************)
\* sdr_ilp.py:24-25   the default weights 0.5, doubled
DefaultWeight2 == 1

\* sdr_ilp.py:113   key_material_weight=10, doubled
ScenarioBKeyMaterialWeight2 == 20

\* sdr_ilp.py:101-102
ScenarioRotations == <<3, 6, 7, 8, 9, 10, 11, 12, 13, 14, 15>>
ScenarioN == 16

\* sdr_ilp.py:38   base_set = range(-N + 1, N)
BaseSet(n) == (-n + 1)..(n - 1)

\* base_set in its iteration order, which is the insertion order of the
\* dicts choose_rotation_vars and input_to_rep_vars[i].
BaseSeq(n) == [k \in 1..(IF n >= 1 THEN 2 * n - 1 ELSE 0) |-> k - n]

RECURSIVE SumSeq(_)
SumSeq(s) == IF s = <<>> THEN 0 ELSE Head(s) + SumSeq(Tail(s))

RECURSIVE TotalSize(_)
TotalSize(rp) ==
    IF rp = <<>> THEN 0 ELSE Cardinality(Head(rp)) + TotalSize(Tail(rp))

MinOf(S) == CHOOSE m \in S : \A o \in S : m <= o

\* Variant: the index is keyed by the (0-based) target index i, as if line 53
\* read base_to_rep_vars[i].append(var).
DominatorByTarget(i, j) == i - 1

\* sdr_ilp.py:51-53, 61-63   rep_i_j is indexed under base_to_rep_vars[j], so
\* the constraint rep_i_j <= rot_j names the candidate j itself.
Dominator(i, j) == j

\* Variant: every coefficient is 1.
CoefficientOne(j) == 1

\* sdr_ilp.py:70   constraint.SetCoefficient(var, j)
Coefficient(j) == j

\* sdr_ilp.py:68   solver.Constraint(rotation, rotation): lower and upper bound
RowBounds(rotation) == <<rotation, rotation>>

RECURSIVE RowValue(_)
RowValue(R) ==
    IF R = {} THEN 0
    ELSE LET j == MinOf(R) IN Coefficient(j) + RowValue(R \ {j})

\* Whether the row of target value t holds when exactly the variables rep_i_j,
\* j in R, are 1.
RowHolds(R, t) ==
    /\ RowBounds(t)[1] <= RowValue(R)
    /\ RowValue(R) <= RowBounds(t)[2]

\* Variant: the loop of lines 76-77 starts one target late, so the variables
\* rep_0_j get no latency coefficient.
ObjectiveSkipsFirstTarget(ch, rp) ==
    key_material_weight * Cardinality(ch)
      + latency_weight * (IF rp = <<>> THEN 0 ELSE TotalSize(Tail(rp)))

\* sdr_ilp.py:72-77   the objective of an assignment (ch: selected candidates,
\* rp: per target the candidates used)
Objective(ch, rp) ==
    key_material_weight * Cardinality(ch) + latency_weight * TotalSize(rp)

\* Variant: FEASIBLE is not accepted.
IsSuccessOptimalOnly(s) == s = "OPTIMAL"

\* sdr_ilp.py:84   the statuses under which a Solution is built
IsSuccess(s) == s = "OPTIMAL" \/ s = "FEASIBLE"

\* sdr_ilp.py:87-89   [i for i, var in choose_rotation_vars.items() if ...]
SelectedRotations(ch) == SelectSeq(BaseSeq(N), LAMBDA j : j \in ch)

\* sdr_ilp.py:90-93   [[j for j, var in input_to_rep_vars[i] if ...] for i ...]
Reconstructions(rp) ==
    [i \in 1..Len(rotations) |-> SelectSeq(BaseSeq(N), LAMBDA j : j \in rp[i])]

(***************************************************************************)
(* The solver.  solver.Solve() is an external mixed-integer solver; what   *)
(* the program relies on is its contract: INFEASIBLE when no assignment    *)
(* satisfies the rows built above, otherwise an assignment that satisfies  *)
(* them (of least objective when the status is OPTIMAL), or a failure      *)
(* status.  The model produces every such assignment whose objective is at *)
(* most `budget`, target by target.  A partial assignment is dropped as    *)
(* soon as its objective plus LowerBound, the least cost the remaining     *)
(* targets can still add, exceeds the budget; no assignment within the     *)
(* budget is lost by that (LowerBoundMonotone, OptimalIsLeast).            *)
(***************************************************************************)
\* The least size of a subset of S whose row for target value t holds, -1 if
\* there is none.
MinRow(S, t) ==
    LET sizes == {Cardinality(R) : R \in {Q \in SUBSET S : RowHolds(Q, t)}}
    IN  IF sizes = {} THEN -1 ELSE MinOf(sizes)

RECURSIVE SumMinRows(_, _)
SumMinRows(S, ts) ==
    IF ts = <<>> THEN 0 ELSE MinRow(S, Head(ts)) + SumMinRows(S, Tail(ts))

\* The least objective over all assignments satisfying the rows, by
\* enumeration of the selections; -1 if the program is infeasible.
MinObjective ==
    LET usable == {S \in SUBSET BaseSet(N) :
                     \A i \in 1..Len(rotations) : MinRow(S, rotations[i]) >= 0}
        costs == {key_material_weight * Cardinality(S)
                    + latency_weight * SumMinRows(S, rotations) : S \in usable}
    IN  IF costs = {} THEN -1 ELSE MinOf(costs)

\* An objective value no assignment or partial assignment exceeds.
Unbounded ==
    (key_material_weight + latency_weight * Len(rotations))
        * Cardinality(BaseSet(N))
    + (key_material_weight + latency_weight) * Len(rotations) + 1

MinWeight ==
    IF key_material_weight <= latency_weight
    THEN key_material_weight ELSE latency_weight

\* The nonzero target values after target k that are not selected in ch.
Unselected(ch, k) ==
    {rotations[i] : i \in {m \in (k + 1)..Len(rotations) : rotations[m] # 0}}
        \ ch

\* What the targets after k add at least to the objective of any completion
\* of a partial assignment with selection ch: a nonzero target uses one
\* candidate; a target value that is not selected is either selected later
\* or its target uses a second candidate.
LowerBound(ch, k) ==
    latency_weight
        * Cardinality({m \in (k + 1)..Len(rotations) : rotations[m] # 0})
    + MinWeight * Cardinality(Unselected(ch, k))

\* What using candidate j for target k adds to objective plus lower bound.
Price(j, ch, k) ==
    IF j \in ch THEN latency_weight
    ELSE key_material_weight + latency_weight
           - (IF j \in Unselected(ch, k) THEN MinWeight ELSE 0)

\* The sets R of candidates >= lo whose row value lies in lb..ub and whose
\* prices sum to at most room.
RECURSIVE RowSets(_, _, _, _, _, _)
RowSets(lo, lb, ub, room, ch, k) ==
    LET here == IF lb <= 0 /\ 0 <= ub THEN {{}} ELSE {}
        affordable == {j \in lo..(N - 1) : Price(j, ch, k) <= room}
    IN  IF room < 2 * latency_weight
        THEN \* every price is at least latency_weight: one more candidate at most
             here \cup {{j} : j \in {a \in affordable :
                                       lb <= Coefficient(a) /\ Coefficient(a) <= ub}}
        ELSE here \cup UNION {
                 {R \cup {j} : R \in RowSets(j + 1, lb - Coefficient(j),
                                             ub - Coefficient(j),
                                             room - Price(j, ch, k), ch, k)}
                 : j \in affordable}

\* The subsets of S of at most m elements.
RECURSIVE SmallSubsets(_, _)
SmallSubsets(S, m) ==
    IF m <= 0 \/ S = {} THEN {{}}
    ELSE LET j == MinOf(S)
         IN  SmallSubsets(S \ {j}, m)
               \cup {Q \cup {j} : Q \in SmallSubsets(S \ {j}, m - 1)}

IlpStart ==
    /\ target_index = 0
    /\ choose_rotation_vars = {}
    /\ representation_vars = <<>>
    /\ result = [kind |-> "none"]

\* sdr_ilp.py:80   solver.Solve() runs to a proven optimum.
SolveOptimal ==
    /\ pc = "solve"
    /\ MinObjective >= 0
    /\ status' = "OPTIMAL"
    /\ budget' = MinObjective
    /\ solve_calls' = solve_calls + 1
    /\ pc' = "assign"
    /\ UNCHANGED <<rotations, N, latency_weight, key_material_weight,
                   target_index, choose_rotation_vars, representation_vars,
                   result>>
    /\ UNCHANGED codecVars

\* sdr_ilp.py:80   solver.Solve() stops at an assignment not proven optimal.
SolveFeasible ==
    /\ pc = "solve"
    /\ MinObjective >= 0
    /\ status' = "FEASIBLE"
    /\ budget' = Unbounded
    /\ solve_calls' = solve_calls + 1
    /\ pc' = "assign"
    /\ UNCHANGED <<rotations, N, latency_weight, key_material_weight,
                   target_index, choose_rotation_vars, representation_vars,
                   result>>
    /\ UNCHANGED codecVars

\* sdr_ilp.py:80   solver.Solve() finds that no assignment satisfies the rows.
SolveInfeasible ==
    /\ pc = "solve"
    /\ MinObjective < 0
    /\ status' = "INFEASIBLE"
    /\ solve_calls' = solve_calls + 1
    /\ pc' = "solved"
    /\ UNCHANGED <<rotations, N, latency_weight, key_material_weight, budget,
                   target_index, choose_rotation_vars, representation_vars,
                   result>>
    /\ UNCHANGED codecVars

\* sdr_ilp.py:80   solver.Solve() gives up without an answer.
SolveAbnormal ==
    /\ pc = "solve"
    /\ status' \in {"ABNORMAL", "NOT_SOLVED"}
    /\ solve_calls' = solve_calls + 1
    /\ pc' = "solved"
    /\ UNCHANGED <<rotations, N, latency_weight, key_material_weight, budget,
                   target_index, choose_rotation_vars, representation_vars,
                   result>>
    /\ UNCHANGED codecVars

\* Inside solver.Solve(): the variables rep_i_j of the next target i get
\* their values, and with them the variables rot_j that lines 61-63 bound
\* them by.
AssignTarget ==
    /\ pc = "assign"
    /\ target_index < Len(rotations)
    /\ LET i == target_index + 1
           t == rotations[i]
           room == budget
                     - Objective(choose_rotation_vars, representation_vars)
                     - LowerBound(choose_rotation_vars, i)
       IN  \E R \in RowSets(-N + 1, RowBounds(t)[1], RowBounds(t)[2], room,
                            choose_rotation_vars, i) :
             LET ch == choose_rotation_vars \cup {Dominator(i, j) : j \in R}
                 rp == Append(representation_vars, R)
             IN  /\ RowHolds(R, t)
                 /\ Objective(ch, rp) + LowerBound(ch, i) <= budget
                 /\ choose_rotation_vars' = ch
                 /\ representation_vars' = rp
                 /\ target_index' = i
    /\ UNCHANGED <<pc, rotations, N, latency_weight, key_material_weight,
                   status, budget, result, solve_calls>>
    /\ UNCHANGED codecVars

\* solver.Solve() returns: every row holds; candidates no target uses may be
\* selected as well (line 60: "if it is selected, the rep var may still be
\* zero").
CompleteAssignment ==
    /\ pc = "assign"
    /\ target_index = Len(rotations)
    /\ LET free == BaseSet(N) \ choose_rotation_vars
           room == budget
                     - Objective(choose_rotation_vars, representation_vars)
           most == IF key_material_weight = 0 THEN Cardinality(free)
                   ELSE room \div key_material_weight
       IN  \E extra \in SmallSubsets(free, most) :
             /\ Objective(choose_rotation_vars \cup extra, representation_vars)
                  <= budget
             /\ choose_rotation_vars' = choose_rotation_vars \cup extra
    /\ pc' = "solved"
    /\ UNCHANGED <<rotations, N, latency_weight, key_material_weight, status,
                   budget, target_index, representation_vars, result,
                   solve_calls>>
    /\ UNCHANGED codecVars

\* sdr_ilp.py:84-95   return Solution(...); solve_time_seconds, a wall-clock
\* measurement, is left out.
ReturnSolution ==
    /\ pc = "solved"
    /\ IsSuccess(status)
    /\ result' = [kind |-> "Solution",
                  objective |-> Objective(choose_rotation_vars,
                                          representation_vars),
                  rotations |-> SelectedRotations(choose_rotation_vars),
                  reconstructions |-> Reconstructions(representation_vars)]
    /\ pc' = "done"
    /\ UNCHANGED <<rotations, N, latency_weight, key_material_weight, status,
                   budget, target_index, choose_rotation_vars,
                   representation_vars, solve_calls>>
    /\ UNCHANGED codecVars

\* sdr_ilp.py:96-97   raise ValueError(f"Unexpected solver status: {status}")
RaiseError ==
    /\ pc = "solved"
    /\ ~IsSuccess(status)
    /\ result' = [kind |-> "ValueError", status |-> status]
    /\ pc' = "done"
    /\ UNCHANGED <<rotations, N, latency_weight, key_material_weight, status,
                   budget, target_index, choose_rotation_vars,
                   representation_vars, solve_calls>>
    /\ UNCHANGED codecVars

(***************************************************************************)
(* Specifications.                                                         *)
(***************************************************************************)
CodecLocalsInit ==
    /\ naf = <<>>
    /\ digits = <<>>
    /\ recomposed = 0
    /\ negative_bits = 0
    /\ positive_bits = 0
    /\ neg = 0
    /\ pos = 0
    /\ p_x = 0
    /\ p_place_value = 1
    /\ p_recomposed = 0

\* No codec function is running.
CodecIdle ==
    /\ cpc = "idle"
    /\ caller = "none"
    /\ arg = 0
    /\ alt = <<>>
    /\ x = 0
    /\ rec_naf = <<>>
    /\ rec_idx = 0
    /\ rec_x = 0
    /\ rec_place_value = 1
    /\ CodecLocalsInit

\* find_optimal_rotations is not running.
IlpIdle ==
    /\ pc = "idle"
    /\ rotations = <<>>
    /\ N = 1
    /\ latency_weight = DefaultWeight2
    /\ key_material_weight = DefaultWeight2
    /\ status = "NOT_SOLVED"
    /\ budget = 0
    /\ solve_calls = 0
    /\ IlpStart

\* sdr_test.py: both tests, run one after the other on the same x.
Init ==
    /\ arg \in 0..MaxX
    /\ caller = "test"
    /\ alt = <<>>
    /\ cpc = "looping_naf"
    /\ x = arg
    /\ rec_naf = <<>>
    /\ rec_idx = 0
    /\ rec_x = 0
    /\ rec_place_value = 1
    /\ CodecLocalsInit
    /\ IlpIdle

Next ==
    \/ NafStep
    \/ NafReturn
    \/ RecomposeStep
    \/ RecomposeReturn
    \/ ProdingerNaf
    \/ ProdingerRecomposeStep
    \/ ProdingerRecomposeReturn

Spec == Init /\ [][Next]_vars

\* The interpreter runs a started call to its end: no step waits on anything.
FairSpec == Spec /\ WF_vars(Next)

\* Digit sequences over {-1, 0, 1} of length at most n.
DigitSeqs(n) == UNION {[1..k -> {-1, 0, 1}] : k \in 0..n}

\* Any digit sequence is decoded by looping_recompose, and its value, when
\* non-negative, is encoded again by looping_naf.
InitMin ==
    /\ alt \in DigitSeqs(MaxAltLen)
    /\ caller = "minimality"
    /\ arg = 0
    /\ cpc = "looping_recompose"
    /\ x = 0
    /\ rec_naf = alt
    /\ rec_idx = Len(alt)
    /\ rec_x = 0
    /\ rec_place_value = 1
    /\ CodecLocalsInit
    /\ IlpIdle

NextMin ==
    \/ RecomposeStep
    \/ RecomposeReturn
    \/ NafStep
    \/ NafReturn

SpecMin == InitMin /\ [][NextMin]_vars

\* Target lists of length at most n over the values -MaxTarget..MaxTarget.
TargetLists(n) == UNION {[1..k -> (-MaxTarget)..MaxTarget] : k \in 0..n}

WeightChoices == {0, DefaultWeight2, ScenarioBKeyMaterialWeight2}

\* A call of find_optimal_rotations, at the point where the model is built
\* and solver.Solve() is about to be called.
InitIlp ==
    /\ rotations \in TargetLists(MaxTargets)
    /\ N \in 1..MaxN
    /\ latency_weight \in {0, DefaultWeight2}
    /\ key_material_weight \in WeightChoices
    /\ pc = "solve"
    /\ status = "NOT_SOLVED"
    /\ budget = 0
    /\ solve_calls = 0
    /\ IlpStart
    /\ CodecIdle

NextIlp ==
    \/ SolveOptimal
    \/ SolveFeasible
    \/ SolveInfeasible
    \/ SolveAbnormal
    \/ AssignTarget
    \/ CompleteAssignment
    \/ ReturnSolution
    \/ RaiseError

SpecIlp == InitIlp /\ [][NextIlp]_vars

\* The two calls of the demonstration block, inside solver.Solve(), with the
\* solver stopping at any assignment of objective at most the budget.
InitScenario(kw, bound) ==
    /\ rotations = ScenarioRotations
    /\ N = ScenarioN
    /\ latency_weight = DefaultWeight2
    /\ key_material_weight = kw
    /\ pc = "assign"
    /\ status = "FEASIBLE"
    /\ budget = bound
    /\ solve_calls = 1
    /\ IlpStart
    /\ CodecIdle

NextScenario ==
    \/ AssignTarget
    \/ CompleteAssignment
    \/ ReturnSolution

\* sdr_ilp.py:104   find_optimal_rotations(rotations, N, key_material_weight=0.5)
InitA == InitScenario(DefaultWeight2, MaxObjectiveA)
SpecA == InitA /\ [][NextScenario]_vars

\* sdr_ilp.py:113   find_optimal_rotations(rotations, N, key_material_weight=10)
InitB == InitScenario(ScenarioBKeyMaterialWeight2, MaxObjectiveB)
SpecB == InitB /\ [][NextScenario]_vars

(***************************************************************************)
(* Properties.                                                             *)
(***************************************************************************)
\* The test of looping_naf has run to its end.
LoopingTestDone ==
    /\ caller = "test"
    /\ cpc \in {"prodinger_naf", "prodinger_recompose", "done"}

\* looping_naf has returned.
NafReturned ==
    \/ caller = "test" /\ cpc # "looping_naf"
    \/ caller = "minimality" /\ cpc = "done"

\* Bit k of a non-negative integer.
RECURSIVE Bit(_, _)
Bit(a, k) == IF k = 0 THEN a % 2 ELSE Bit(a \div 2, k - 1)

RECURSIVE Pow2(_)
Pow2(k) == IF k = 0 THEN 1 ELSE 2 * Pow2(k - 1)

\* The digit of a most-significant-first digit list at power 2^k.
DigitAt(ds, k) == IF k < Len(ds) THEN ds[Len(ds) - k] ELSE 0

\* Number of nonzero entries of a digit list.
Weight(ds) == Cardinality({i \in 1..Len(ds) : ds[i] # 0})

\* C1: for every x >= 0 (x = 0 included), looping_naf(x) followed by
\* looping_recompose runs to its end, and the value recomposed is x.
C1_IterativeRoundTrip ==
    /\ <>LoopingTestDone
    /\ [](LoopingTestDone => recomposed = arg)

C1_Witness ==
    /\ LoopingTestDone
    /\ arg = 7
    /\ digits = <<1, 0, 0, -1>>
    /\ recomposed = 7

\* C2: for every x >= 0, prodinger_naf(x) followed by prodinger_recompose
\* runs to its end, and the value recomposed is x.
C2_BitwiseRoundTrip ==
    /\ <>(cpc = "done")
    /\ [](cpc = "done" => p_recomposed = arg)

C2_Witness ==
    /\ cpc = "done"
    /\ arg = 7
    /\ negative_bits = 1
    /\ positive_bits = 8
    /\ p_recomposed = 7

\* C3: bit k of the positive mask of prodinger_naf(x) is set exactly when the
\* digit of looping_naf(x) at 2^k is +1, bit k of the negative mask exactly
\* when it is -1 (digit 0 beyond the list), and no bit is set in both masks.
C3_MasksMatchDigits ==
    cpc = "done" =>
        /\ Len(digits) <= MaxBit + 1
        /\ positive_bits < Pow2(MaxBit + 1)
        /\ negative_bits < Pow2(MaxBit + 1)
        /\ \A k \in 0..MaxBit :
              /\ Bit(positive_bits, k) = 1 <=> DigitAt(digits, k) = 1
              /\ Bit(negative_bits, k) = 1 <=> DigitAt(digits, k) = -1
              /\ ~(Bit(positive_bits, k) = 1 /\ Bit(negative_bits, k) = 1)

C3_Witness ==
    /\ cpc = "done"
    /\ arg = 23
    /\ digits = <<1, 0, -1, 0, 0, -1>>
    /\ positive_bits = 32
    /\ negative_bits = 9

\* C4: every entry of looping_naf(x) is -1, 0 or 1, and no two consecutive
\* entries are both nonzero.
C4_NonAdjacent ==
    (caller = "test" /\ NafReturned) =>
        /\ \A i \in 1..Len(digits) : digits[i] \in {-1, 0, 1}
        /\ \A i \in 1..(Len(digits) - 1) : digits[i] = 0 \/ digits[i + 1] = 0

C4_Witness ==
    /\ caller = "test"
    /\ NafReturned
    /\ arg = 27
    /\ digits = <<1, 0, 0, -1, 0, -1>>

\* C5: looping_naf(x) has no more nonzero digits than any digit sequence over
\* {-1, 0, 1} that looping_recompose maps to x.
C5_MinimalWeight ==
    (caller = "minimality" /\ cpc = "done") =>
        /\ recomposed = arg
        /\ Weight(digits) <= Weight(alt)

C5_Witness ==
    /\ caller = "minimality"
    /\ cpc = "done"
    /\ alt = <<1, 1, 1>>
    /\ digits = <<1, 0, 0, -1>>

\* The members of a list.
Members(s) == {s[k] : k \in 1..Len(s)}

Returned == pc = "done" /\ result.kind = "Solution"

\* C6: a returned Solution has one reconstruction list per input target
\* (duplicates included), and the integers of reconstructions[i] sum to
\* rotations[i].
C6_ReconstructionSound ==
    Returned =>
        /\ Len(result.reconstructions) = Len(rotations)
        /\ \A i \in 1..Len(rotations) :
              SumSeq(result.reconstructions[i]) = rotations[i]

C6_Witness ==
    /\ Returned
    /\ rotations = <<1, 1>>
    /\ result.reconstructions = <<<<1>>, <<0, 1>>>>

\* C7: every integer in a reconstruction list of a returned Solution is in
\* its rotations list; the converse need not hold.
C7_SelectionClosure ==
    Returned =>
        \A i \in 1..Len(result.reconstructions) :
            Members(result.reconstructions[i]) \subseteq Members(result.rotations)

C7_Witness ==
    /\ Returned
    /\ rotations = <<1>>
    /\ result.reconstructions = <<<<1>>>>
    /\ result.rotations = <<-1, 1>>

\* C8: a Solution is returned exactly when the one solve call reports OPTIMAL
\* or FEASIBLE; under any other status the call ends in an error that carries
\* the status and nothing else, and the solver is called once only.
C8_StatusHandling ==
    /\ solve_calls <= 1
    /\ pc # "done" => result.kind = "none"
    /\ pc = "done" =>
        /\ solve_calls = 1
        /\ result.kind = "Solution" <=> status \in {"OPTIMAL", "FEASIBLE"}
        /\ status \notin {"OPTIMAL", "FEASIBLE"} =>
              result = [kind |-> "ValueError", status |-> status]

C8_Witness ==
    /\ pc = "done"
    /\ status = "INFEASIBLE"
    /\ rotations = <<2>>
    /\ N = 2
    /\ result = [kind |-> "ValueError", status |-> "INFEASIBLE"]

\* The Solution of the demonstration's comment: the input list selected, each
\* target reconstructed by itself.
InputListSolution ==
    /\ result.rotations = rotations
    /\ result.reconstructions = [i \in 1..Len(rotations) |-> <<rotations[i]>>]

\* C9 as claimed: in scenario A the least objective is 11.0 (22 doubled), and
\* every assignment of that objective selects exactly the input list and
\* reconstructs each target by itself.
C9_OnlyInputListIsOptimal ==
    Returned =>
        /\ result.objective >= 22
        /\ result.objective = 22 => InputListSolution

\* C9 as amended: in scenario A the least objective is 11.0 (22 doubled); an
\* assignment of that objective selects only values of the input list and
\* reconstructs each target by at most two of them.  The input list with each
\* target reconstructed by itself is one such assignment (C9_Witness).
C9_MinimumObjective ==
    Returned =>
        /\ result.objective >= 22
        /\ result.objective = 22 =>
              /\ Members(result.rotations) \subseteq Members(rotations)
              /\ \A i \in 1..Len(rotations) :
                    Len(result.reconstructions[i]) \in {1, 2}

C9_Witness ==
    /\ Returned
    /\ result.objective = 22
    /\ InputListSolution

\* C10: in scenario B the objective is 10 per selected candidate plus 0.5 per
\* reconstruction entry, its least value is 50.5 (101 doubled), and every
\* assignment of that objective selects fewer candidates than there are
\* targets.  The selection {3, 4, 6, 8} attains it (C10_Witness).
C10_MinimumObjective ==
    Returned =>
        /\ result.objective
             = 20 * Len(result.rotations)
                 + SumSeq([i \in 1..Len(rotations) |->
                             Len(result.reconstructions[i])])
        /\ result.objective >= 101
        /\ result.objective = 101 => Len(result.rotations) < Len(rotations)

C10_Witness ==
    /\ Returned
    /\ result.objective = 101
    /\ result.rotations = <<3, 4, 6, 8>>
    /\ result.reconstructions
         = << <<3>>, <<6>>, <<3, 4>>, <<8>>, <<3, 6>>, <<4, 6>>, <<3, 8>>,
              <<4, 8>>, <<3, 4, 6>>, <<6, 8>>, <<3, 4, 8>> >>

\* The pruning of the solver's enumeration loses no assignment: objective
\* plus LowerBound never decreases while targets are assigned.
LowerBoundMonotone ==
    [][pc = "assign" =>
         Objective(choose_rotation_vars', representation_vars')
           + LowerBound(choose_rotation_vars', target_index')
         >= Objective(choose_rotation_vars, representation_vars)
              + LowerBound(choose_rotation_vars, target_index)]_vars

\* Under status OPTIMAL the assignment returned has the least objective.
OptimalIsLeast ==
    (pc = "solved" /\ status = "OPTIMAL") =>
        Objective(choose_rotation_vars, representation_vars) = MinObjective

=============================================================================
